---------------------------- MODULE Spec2Model ----------------------------
(***************************************************************************)
(* Model of connectlog (src/app.py): the HR-profile override loader and    *)
(* resolver, the HR-zone labeler and the training-readiness evaluation of  *)
(* the /api/status handler.                                                *)
(*                                                                         *)
(* Python values are encoded so that values of one field stay comparable:  *)
(*   None            <<>>                                                  *)
(*   a str           <<chars>>, chars a sequence of one-character strings  *)
(*                   (where the field may also be None), or the bare       *)
(*                   sequence of characters where it is always a str       *)
(*   an int          <<n>> where the field may also be None                *)
(*   a date          <<year, month, day>>                                  *)
(*   a date text     <<year, month, day>> for text of the shape            *)
(*                   YYYY-MM-DD (the fields need not form a real date),    *)
(*                   <<"...">> for text of any other shape                 *)
(***************************************************************************)
EXTENDS Integers, Sequences, FiniteSets, TLC

VARIABLES
    phase,                  \* "boot" | "serving" | "aborted" (import of app.py)
    config,                 \* what HR_PROFILE_OVERRIDES_PATH names, as read at import
    HR_PROFILE_OVERRIDES,   \* the module-level override list (app.py:246)
    load_error,             \* the error load_hr_profile_overrides raised, or "none"
    call,                   \* the last call or request served, with its result
    today,                  \* the date datetime.now() falls on
    cache,                  \* the files of CACHE_DIR: file name -> content or None
    stored_for              \* history: file name -> the period its content was fetched for

vars == <<phase, config, HR_PROFILE_OVERRIDES, load_error, call, today, cache, stored_for>>

None == <<>>

(***************************************************************************)
(* Bounds of the model.                                                    *)
(***************************************************************************)
MaxOverrides == 3       \* entries in the override file
MaxCallOverrides == 2   \* overrides handed to get_hr_zone_context directly
MaxZones == 2           \* observations handed to format_hr_zones_with_labels
MaxBBEntries == 2       \* entries the provider returns for get_body_battery
MaxDayChanges == 1      \* midnights that pass while the process serves

(***************************************************************************)
(* Strings, character by character, and str.lower().                       *)
(***************************************************************************)
UpperChars == <<"A","B","C","D","E","F","G","H","I","J","K","L","M",
                "N","O","P","Q","R","S","T","U","V","W","X","Y","Z">>
LowerChars == <<"a","b","c","d","e","f","g","h","i","j","k","l","m",
                "n","o","p","q","r","s","t","u","v","w","x","y","z">>

LowerOf ==
    [c \in {UpperChars[i] : i \in DOMAIN UpperChars} |->
        LowerChars[CHOOSE i \in DOMAIN UpperChars : UpperChars[i] = c]]

lower_char(c) == IF c \in DOMAIN LowerOf THEN LowerOf[c] ELSE c

\* mutant: the scheme is compared as written
lower_unchanged(s) == s

lower(s) == [i \in DOMAIN s |-> lower_char(s[i])]

S_garmin == <<"g","a","r","m","i","n">>
S_olympiatoppen == <<"o","l","y","m","p","i","a","t","o","p","p","e","n">>
S_Garmin == <<"G","a","r","m","i","n">>
S_OLYMPIATOPPEN == <<"O","L","Y","M","P","I","A","T","O","P","P","E","N">>
S_Olympiatoppen == <<"O","l","y","m","p","i","a","t","o","p","p","e","n">>
S_polar == <<"p","o","l","a","r">>
S_garmin_sp == <<"g","a","r","m","i","n"," ">>
S_empty == <<>>

(***************************************************************************)
(* Dates: datetime.date orders by (year, month, day); strptime with        *)
(* "%Y-%m-%d" accepts exactly the texts of that shape naming a real day.   *)
(***************************************************************************)
date_lt(a, b) ==
    \/ a[1] < b[1]
    \/ a[1] = b[1] /\ a[2] < b[2]
    \/ a[1] = b[1] /\ a[2] = b[2] /\ a[3] < b[3]

date_le(a, b) == a = b \/ date_lt(a, b)

date_min == <<1, 1, 1>>           \* datetime.min.date()
date_max == <<9999, 12, 31>>      \* datetime.max.date()

is_leap(y) == (y % 4 = 0 /\ y % 100 # 0) \/ y % 400 = 0

days_in_month(y, m) ==
    IF m = 2 THEN (IF is_leap(y) THEN 29 ELSE 28)
    ELSE IF m \in {4, 6, 9, 11} THEN 30 ELSE 31

strptime_ok(text) ==
    /\ Len(text) = 3
    /\ text[1] \in 1..9999
    /\ text[2] \in 1..12
    /\ text[3] \in 1..days_in_month(text[1], text[2])

\* parse_date_or_none: [ok, value]; ok = FALSE is the ValueError it raises
parse_date_or_none(date_str) ==
    IF date_str = None \/ date_str = <<"">>
    THEN [ok |-> TRUE, value |-> None]
    ELSE IF strptime_ok(date_str)
         THEN [ok |-> TRUE, value |-> date_str]
         ELSE [ok |-> FALSE, value |-> None]

(***************************************************************************)
(* validate_hr_profile_overlaps: TRUE iff it raises.                       *)
(***************************************************************************)
range_bounds(item) ==
    [start |-> IF item.start_date # None THEN item.start_date ELSE date_min,
     end   |-> IF item.end_date # None THEN item.end_date ELSE date_max]

\* mutant: ranges that share only a boundary day do not count as overlapping
overlaps_strict(current, other) ==
    /\ date_lt(range_bounds(current).start, range_bounds(other).end)
    /\ date_lt(range_bounds(other).start, range_bounds(current).end)

overlaps(current, other) ==
    /\ date_le(range_bounds(current).start, range_bounds(other).end)
    /\ date_le(range_bounds(other).start, range_bounds(current).end)

\* mutant: each entry is compared with its successor only
validate_adjacent_only(overrides) ==
    \E idx \in 1..Len(overrides) :
        \E j \in (idx + 1)..Len(overrides) :
            j = idx + 1 /\ overlaps(overrides[idx], overrides[j])

validate_hr_profile_overlaps(overrides) ==
    \E idx \in 1..Len(overrides) :
        \E j \in (idx + 1)..Len(overrides) :
            overlaps(overrides[idx], overrides[j])

(***************************************************************************)
(* load_hr_profile_overrides: the loop over the raw entries stops at the   *)
(* first entry that raises; the overlap check runs after the loop.         *)
(***************************************************************************)
\* one iteration of the loop (app.py:76-94): the error raised, or the record
\* mutant: the scheme is checked in lower case but stored as written
load_entry_keeping_spelling(entry) ==
    LET zone_scheme == lower(IF entry.zone_scheme # None
                             THEN entry.zone_scheme[1] ELSE S_empty)
        start_date == parse_date_or_none(entry.start_date)
        end_date == parse_date_or_none(entry.end_date)
    IN  IF zone_scheme \notin {S_garmin, S_olympiatoppen}
        THEN [error |-> "InvalidZoneScheme", record |-> None]
        ELSE IF ~start_date.ok \/ ~end_date.ok
        THEN [error |-> "InvalidDateFormat", record |-> None]
        ELSE IF /\ start_date.value # None
                /\ end_date.value # None
                /\ date_lt(end_date.value, start_date.value)
        THEN [error |-> "InvalidDateRange", record |-> None]
        ELSE [error |-> "none",
              record |-> [start_date |-> start_date.value,
                          end_date |-> end_date.value,
                          device |-> entry.device,
                          max_hr |-> entry.max_hr,
                          zone_scheme |-> entry.zone_scheme[1]]]

load_entry(entry) ==
    LET zone_scheme == lower(IF entry.zone_scheme # None
                             THEN entry.zone_scheme[1] ELSE S_empty)
        start_date == parse_date_or_none(entry.start_date)
        end_date == parse_date_or_none(entry.end_date)
    IN  IF zone_scheme \notin {S_garmin, S_olympiatoppen}
        THEN [error |-> "InvalidZoneScheme", record |-> None]
        ELSE IF ~start_date.ok \/ ~end_date.ok
        THEN [error |-> "InvalidDateFormat", record |-> None]
        ELSE IF /\ start_date.value # None
                /\ end_date.value # None
                /\ date_lt(end_date.value, start_date.value)
        THEN [error |-> "InvalidDateRange", record |-> None]
        ELSE [error |-> "none",
              record |-> [start_date |-> start_date.value,
                          end_date |-> end_date.value,
                          device |-> entry.device,
                          max_hr |-> entry.max_hr,
                          zone_scheme |-> zone_scheme]]

\* mutant: an entry that fails its checks is skipped, the rest is kept
RECURSIVE load_loop_skipping(_, _, _)
load_loop_skipping(raw_overrides, i, overrides) ==
    IF i > Len(raw_overrides)
    THEN [error |-> "none", overrides |-> overrides]
    ELSE LET r == load_entry(raw_overrides[i])
         IN  IF r.error # "none"
             THEN load_loop_skipping(raw_overrides, i + 1, overrides)
             ELSE load_loop_skipping(raw_overrides, i + 1, Append(overrides, r.record))

RECURSIVE load_loop(_, _, _)
load_loop(raw_overrides, i, overrides) ==
    IF i > Len(raw_overrides)
    THEN [error |-> "none", overrides |-> overrides]
    ELSE LET r == load_entry(raw_overrides[i])
         IN  IF r.error # "none"
             THEN [error |-> r.error, overrides |-> <<>>]
             ELSE load_loop(raw_overrides, i + 1, Append(overrides, r.record))

\* mutant: a configured path without a file behind it aborts the start
load_missing_file_raises(cfg) ==
    IF cfg.kind = "missing"
    THEN [error |-> "FileNotFoundError", overrides |-> <<>>]
    ELSE IF cfg.kind # "file"
    THEN [error |-> "none", overrides |-> <<>>]
    ELSE LET r == load_loop(cfg.entries, 1, <<>>)
         IN  IF r.error # "none" THEN r
             ELSE IF validate_hr_profile_overlaps(r.overrides)
             THEN [error |-> "OverlappingOverrides", overrides |-> <<>>]
             ELSE r

load_hr_profile_overrides(cfg) ==
    IF cfg.kind # "file"
    THEN [error |-> "none", overrides |-> <<>>]
    ELSE LET r == load_loop(cfg.entries, 1, <<>>)
         IN  IF r.error # "none" THEN r
             ELSE IF validate_hr_profile_overlaps(r.overrides)
             THEN [error |-> "OverlappingOverrides", overrides |-> <<>>]
             ELSE r

(***************************************************************************)
(* get_hr_zone_context: the first override, in list order, that neither    *)
(* `continue` skips; the default context without one.                      *)
(***************************************************************************)
\* mutant: the end date itself is outside the range
skipped_end_exclusive(activity_date, override) ==
    \/ override.start_date # None /\ date_lt(activity_date, override.start_date)
    \/ override.end_date # None /\ date_le(override.end_date, activity_date)

skipped(activity_date, override) ==
    \/ override.start_date # None /\ date_lt(activity_date, override.start_date)
    \/ override.end_date # None /\ date_lt(override.end_date, activity_date)

\* index of `selected`, 0 when the loop ends without a break
RECURSIVE select_override(_, _, _)
select_override(activity_date, overrides, i) ==
    IF i > Len(overrides) THEN 0
    ELSE IF skipped(activity_date, overrides[i])
         THEN select_override(activity_date, overrides, i + 1)
         ELSE i

default_context == [zone_scheme |-> S_garmin, max_hr |-> None, device |-> None]

get_hr_zone_context(activity_date, overrides) ==
    IF activity_date = None THEN default_context
    ELSE LET sel == select_override(activity_date, overrides, 1)
         IN  IF sel = 0 THEN default_context
             ELSE [zone_scheme |-> overrides[sel].zone_scheme,
                   max_hr |-> overrides[sel].max_hr,
                   device |-> overrides[sel].device]

(***************************************************************************)
(* format_hr_zones_with_labels. `zones` is None or <<list>>; the result is *)
(* [raised, value] with value None or <<list>>. A dict                     *)
(* {f"{zone_label} ({scheme_name})": zone_num, "time_seconds": t} is the   *)
(* record [key |-> <<zone_label, scheme_name>>, value |-> zone_num,        *)
(* time_seconds |-> t].                                                    *)
(***************************************************************************)
GARMIN_ZONE_RANGES ==
    << [label |-> "Zone 5", min_percent |-> 90, max_percent |-> 100],
       [label |-> "Zone 4", min_percent |-> 80, max_percent |-> 89],
       [label |-> "Zone 3", min_percent |-> 70, max_percent |-> 79],
       [label |-> "Zone 2", min_percent |-> 60, max_percent |-> 69],
       [label |-> "Zone 1", min_percent |-> 50, max_percent |-> 59] >>

OLYMPIATOPPEN_ZONE_RANGES ==
    << [label |-> "I-5", min_percent |-> 92, max_percent |-> 100],
       [label |-> "I-4", min_percent |-> 87, max_percent |-> 91],
       [label |-> "I-3", min_percent |-> 82, max_percent |-> 86],
       [label |-> "I-2", min_percent |-> 72, max_percent |-> 81],
       [label |-> "I-1", min_percent |-> 55, max_percent |-> 71] >>

\* list[idx] of Python: the 1-based position read, 0 for an IndexError.
\* A negative idx counts from the end of the list.
list_index(list, idx) ==
    IF idx >= 0 /\ idx < Len(list) THEN idx + 1
    ELSE IF idx < 0 /\ idx >= -Len(list) THEN Len(list) + idx + 1
    ELSE 0

\* mutant: the table is read as if ordered zone 1 to 5
zone_index_ascending(zone_num) == zone_num - 1

\* the index expression of zone_ranges[5 - zone_num]
zone_index(zone_num) == 5 - zone_num

RECURSIVE format_loop(_, _, _, _, _)
format_loop(zones, i, zone_ranges, scheme_name, formatted_zones) ==
    IF i > Len(zones)
    THEN [raised |-> "none", value |-> <<formatted_zones>>]
    ELSE LET zone_num == zones[i].zone
             pos == list_index(zone_ranges, zone_index(zone_num))
         IN  IF pos = 0
             THEN [raised |-> "IndexError", value |-> None]
             ELSE format_loop(zones, i + 1, zone_ranges, scheme_name,
                      Append(formatted_zones,
                             [key |-> <<zone_ranges[pos].label, scheme_name>>,
                              value |-> zone_num,
                              time_seconds |-> zones[i].time_seconds]))

\* mutant: zones without any recorded time are treated as no zones
format_dropping_zero_time(zones, zone_scheme) ==
    IF \/ zones = None
       \/ \A i \in DOMAIN zones[1] : zones[1][i].time_seconds = 0
    THEN [raised |-> "none", value |-> None]
    ELSE format_loop(zones[1], 1,
             IF zone_scheme = S_olympiatoppen
             THEN OLYMPIATOPPEN_ZONE_RANGES ELSE GARMIN_ZONE_RANGES,
             IF zone_scheme = S_olympiatoppen THEN "Olympiatoppen" ELSE "Garmin",
             <<>>)

format_hr_zones_with_labels(zones, zone_scheme) ==
    IF zones = None \/ zones[1] = <<>>
    THEN [raised |-> "none", value |-> None]
    ELSE format_loop(zones[1], 1,
             IF zone_scheme = S_olympiatoppen
             THEN OLYMPIATOPPEN_ZONE_RANGES ELSE GARMIN_ZONE_RANGES,
             IF zone_scheme = S_olympiatoppen THEN "Olympiatoppen" ELSE "Garmin",
             <<>>)

(***************************************************************************)
(* fetch_daily_summary, for the fields the status page reads. `provider`   *)
(* is what the Garmin client returns for the day: restingHeartRate of      *)
(* get_stats, lastNightAvg of get_hrv_data, the list of get_body_battery   *)
(* and the overall sleep score of get_sleep_data, each None when the call  *)
(* returns nothing, lacks the field or raises (the exception is caught and *)
(* the field keeps its None).                                              *)
(***************************************************************************)
\* [tup[-1] for tup in entry.get("bodyBatteryValuesArray", [])]
last_elements(array) == [k \in DOMAIN array |-> array[k][Len(array[k])]]

\* for entry in bb_data: values = [...]   (each entry overwrites `values`)
RECURSIVE body_battery_loop(_, _, _)
body_battery_loop(bb_data, i, values) ==
    IF i > Len(bb_data) THEN values
    ELSE body_battery_loop(bb_data, i + 1,
             last_elements(bb_data[i].bodyBatteryValuesArray))

list_max(values) == CHOOSE v \in {values[k] : k \in DOMAIN values} :
                        \A k \in DOMAIN values : values[k] <= v
list_min(values) == CHOOSE v \in {values[k] : k \in DOMAIN values} :
                        \A k \in DOMAIN values : v <= values[k]

fetch_daily_summary(provider) ==
    LET bb_data == provider.bb_data
        values == IF bb_data # None /\ bb_data[1] # <<>>
                  THEN body_battery_loop(bb_data[1], 1, <<>>) ELSE <<>>
    IN  [resting_hr |-> provider.restingHeartRate,
         hrv_overnight_avg |-> provider.lastNightAvg,
         body_battery_max |-> IF values # <<>> THEN <<list_max(values)>> ELSE None,
         body_battery_min |-> IF values # <<>> THEN <<list_min(values)>> ELSE None,
         body_battery_values |-> IF values # <<>> THEN <<values>> ELSE None,
         sleep_score |-> provider.sleep_score]

(***************************************************************************)
(* The /api/status handler. A lambda is the function it computes, over the *)
(* values a metric takes.                                                  *)
(***************************************************************************)
MetricValues == 0..200

\* mutant: a missing value is scored as the number 0
evaluate_metric_none_as_zero(value, green_condition, yellow_condition) ==
    LET v == IF value = None THEN 0 ELSE value[1]
    IN  IF green_condition[v] THEN "green"
        ELSE IF yellow_condition[v] THEN "yellow"
        ELSE "red"

evaluate_metric(value, green_condition, yellow_condition) ==
    IF value = None THEN "unknown"
    ELSE IF green_condition[value[1]] THEN "green"
    ELSE IF yellow_condition[value[1]] THEN "yellow"
    ELSE "red"

hrv_green == [v \in MetricValues |-> v > 62]
hrv_yellow == [v \in MetricValues |-> 58 <= v /\ v <= 62]
body_battery_green == [v \in MetricValues |-> v > 75]
body_battery_yellow == [v \in MetricValues |-> 65 <= v /\ v <= 75]
sleep_score_green == [v \in MetricValues |-> v > 75]
sleep_score_yellow == [v \in MetricValues |-> 70 <= v /\ v <= 75]
resting_hr_green == [v \in MetricValues |-> v < 48]
resting_hr_yellow == [v \in MetricValues |-> 48 <= v /\ v <= 50]

energy_zones ==
    [e \in 1..10 |-> IF e >= 7 THEN "green" ELSE IF e >= 5 THEN "yellow" ELSE "red"]

\* int(text): an optional sign, then decimal digits
Digits == <<"0", "1", "2", "3", "4", "5", "6", "7", "8", "9">>
is_digit(c) == \E k \in DOMAIN Digits : Digits[k] = c
digit_value(c) == (CHOOSE k \in DOMAIN Digits : Digits[k] = c) - 1

RECURSIVE digits_value(_, _, _)
digits_value(text, i, acc) ==
    IF i > Len(text) THEN acc
    ELSE digits_value(text, i + 1, acc * 10 + digit_value(text[i]))

\* [ok, value]; ok = FALSE is the ValueError
int_of_text(text) ==
    LET signed == text # <<>> /\ text[1] \in {"+", "-"}
        digits == IF signed THEN Tail(text) ELSE text
    IN  IF digits = <<>> \/ \E k \in DOMAIN digits : ~is_digit(digits[k])
        THEN [ok |-> FALSE, value |-> 0]
        ELSE [ok |-> TRUE,
              value |-> IF signed /\ text[1] = "-"
                        THEN 0 - digits_value(digits, 1, 0)
                        ELSE digits_value(digits, 1, 0)]

status_scores(s) == IF s = "green" THEN 2 ELSE IF s = "yellow" THEN 1 ELSE 0

RECURSIVE list_sum(_)
list_sum(scores) == IF scores = <<>> THEN 0 ELSE Head(scores) + list_sum(Tail(scores))

\* mutant: the verdict follows the mean alone
overall_by_mean_only(statuses) ==
    LET known == SelectSeq(statuses, LAMBDA s : s # "unknown")
        scores == [k \in 1..Len(known) |-> status_scores(known[k])]
    IN  IF scores = <<>>
        THEN [overall_status |-> "unknown",
              recommendation |-> "Insufficient data to determine readiness"]
        ELSE IF list_sum(scores) < Len(scores)
        THEN [overall_status |-> "red", recommendation |-> "Rest day recommended"]
        ELSE IF 2 * list_sum(scores) >= 3 * Len(scores)
        THEN [overall_status |-> "green", recommendation |-> "Training OK"]
        ELSE [overall_status |-> "yellow", recommendation |-> "Light activity only"]

\* mutant: an unknown status is scored 0 instead of being left out
overall_unknown_as_zero(statuses) ==
    LET scores == [k \in 1..Len(statuses) |-> status_scores(statuses[k])]
        red_count == Cardinality({k \in DOMAIN statuses : statuses[k] = "red"})
    IN  IF \A k \in DOMAIN statuses : statuses[k] = "unknown"
        THEN [overall_status |-> "unknown",
              recommendation |-> "Insufficient data to determine readiness"]
        ELSE IF red_count >= 2 \/ list_sum(scores) < Len(scores)
        THEN [overall_status |-> "red", recommendation |-> "Rest day recommended"]
        ELSE IF 2 * list_sum(scores) >= 3 * Len(scores)
        THEN [overall_status |-> "green", recommendation |-> "Training OK"]
        ELSE [overall_status |-> "yellow", recommendation |-> "Light activity only"]

\* app.py:634-652. avg_score = sum(scores) / len(scores) is compared as a
\* fraction: avg_score < 1.0 iff sum < len, avg_score >= 1.5 iff 2 sum >= 3 len.
overall(statuses) ==
    LET known == SelectSeq(statuses, LAMBDA s : s # "unknown")
        scores == [k \in 1..Len(known) |-> status_scores(known[k])]
        red_count == Cardinality({k \in DOMAIN statuses : statuses[k] = "red"})
    IN  IF scores = <<>>
        THEN [overall_status |-> "unknown",
              recommendation |-> "Insufficient data to determine readiness"]
        ELSE IF red_count >= 2 \/ list_sum(scores) < Len(scores)
        THEN [overall_status |-> "red", recommendation |-> "Rest day recommended"]
        ELSE IF 2 * list_sum(scores) >= 3 * Len(scores)
        THEN [overall_status |-> "green", recommendation |-> "Training OK"]
        ELSE [overall_status |-> "yellow", recommendation |-> "Light activity only"]

\* the page rendered from today's summary (app.py:556-884)
status_page(subjective_energy, provider) ==
    LET summary == fetch_daily_summary(provider)
        hrv == summary.hrv_overnight_avg
        body_battery_values == summary.body_battery_values
        body_battery_start ==
            IF body_battery_values # None
            THEN <<list_max(body_battery_values[1])>> ELSE None
        body_battery_current ==
            IF body_battery_values # None
            THEN <<body_battery_values[1][Len(body_battery_values[1])]>> ELSE None
        sleep_score == summary.sleep_score
        resting_hr == summary.resting_hr
        hrv_status == evaluate_metric(hrv, hrv_green, hrv_yellow)
        body_battery_status ==
            evaluate_metric(body_battery_start, body_battery_green, body_battery_yellow)
        sleep_score_status ==
            evaluate_metric(sleep_score, sleep_score_green, sleep_score_yellow)
        resting_hr_status ==
            evaluate_metric(resting_hr, resting_hr_green, resting_hr_yellow)
        verdict == overall(<<hrv_status, body_battery_status,
                             sleep_score_status, resting_hr_status>>)
    IN  [code |-> 200,
         metrics_table |->
            << [metric |-> "HRV", current_value |-> hrv,
                status |-> <<hrv_status>>],
               [metric |-> "Body Battery (start of day)",
                current_value |-> body_battery_start,
                status |-> <<body_battery_status>>],
               [metric |-> "Body Battery (current)",
                current_value |-> body_battery_current,
                status |-> None],
               [metric |-> "Sleep Score", current_value |-> sleep_score,
                status |-> <<sleep_score_status>>],
               [metric |-> "Resting HR", current_value |-> resting_hr,
                status |-> <<resting_hr_status>>] >>,
         overall_status |-> verdict.overall_status,
         recommendation |-> verdict.recommendation,
         energy_zone |-> IF subjective_energy = None THEN None
                         ELSE IF subjective_energy[1] \in DOMAIN energy_zones
                         THEN <<energy_zones[subjective_energy[1]]>>
                         ELSE <<"red">>]

\* a handler that adds the current Body Battery to the scored statuses
status_scoring_current(energy, provider) ==
    IF energy # None /\ ~int_of_text(energy[1]).ok
    THEN [code |-> 400, error |-> "Energy score must be an integer"]
    ELSE IF /\ energy # None
            /\ \/ int_of_text(energy[1]).value < 1
               \/ int_of_text(energy[1]).value > 10
    THEN [code |-> 400, error |-> "Energy score must be between 1-10"]
    ELSE IF ~provider.client_ok
    THEN [code |-> 500]
    ELSE LET page == status_page(IF energy = None THEN None
                                 ELSE <<int_of_text(energy[1]).value>>, provider)
             rows == page.metrics_table
             verdict == overall(<<rows[1].status[1], rows[2].status[1],
                                  evaluate_metric(rows[3].current_value,
                                                  body_battery_green, body_battery_yellow),
                                  rows[4].status[1], rows[5].status[1]>>)
         IN  [page EXCEPT !.overall_status = verdict.overall_status,
                          !.recommendation = verdict.recommendation]

\* a handler that accepts the energy score 0
status_accepting_zero(energy, provider) ==
    IF energy # None /\ ~int_of_text(energy[1]).ok
    THEN [code |-> 400, error |-> "Energy score must be an integer"]
    ELSE IF /\ energy # None
            /\ \/ int_of_text(energy[1]).value < 0
               \/ int_of_text(energy[1]).value > 10
    THEN [code |-> 400, error |-> "Energy score must be between 1-10"]
    ELSE IF ~provider.client_ok
    THEN [code |-> 500]
    ELSE status_page(IF energy = None THEN None ELSE <<int_of_text(energy[1]).value>>,
                     provider)

\* a handler in which a red energy band overrides the verdict
status_folding_energy(energy, provider) ==
    IF energy # None /\ ~int_of_text(energy[1]).ok
    THEN [code |-> 400, error |-> "Energy score must be an integer"]
    ELSE IF /\ energy # None
            /\ \/ int_of_text(energy[1]).value < 1
               \/ int_of_text(energy[1]).value > 10
    THEN [code |-> 400, error |-> "Energy score must be between 1-10"]
    ELSE IF ~provider.client_ok
    THEN [code |-> 500]
    ELSE LET page == status_page(IF energy = None THEN None
                                 ELSE <<int_of_text(energy[1]).value>>, provider)
         IN  IF page.energy_zone = <<"red">>
             THEN [page EXCEPT !.overall_status = "red",
                               !.recommendation = "Rest day recommended"]
             ELSE page

\* `energy` is the query parameter: None when absent, else <<text>>
status(energy, provider) ==
    IF energy # None /\ ~int_of_text(energy[1]).ok
    THEN [code |-> 400, error |-> "Energy score must be an integer"]
    ELSE IF /\ energy # None
            /\ \/ int_of_text(energy[1]).value < 1
               \/ int_of_text(energy[1]).value > 10
    THEN [code |-> 400, error |-> "Energy score must be between 1-10"]
    ELSE IF ~provider.client_ok
    THEN [code |-> 500]
    ELSE status_page(IF energy = None THEN None ELSE <<int_of_text(energy[1]).value>>,
                     provider)

(***************************************************************************)
(* Dates of a request: datetime.now() and timedelta arithmetic.            *)
(***************************************************************************)
\* date arithmetic goes through the proleptic ordinal, 0001-01-01 being day 1
days_before_year(y) == 365 * (y - 1) + (y - 1) \div 4 - (y - 1) \div 100 + (y - 1) \div 400
RECURSIVE days_before_month(_, _)
days_before_month(y, m) ==
    IF m = 1 THEN 0 ELSE days_before_month(y, m - 1) + days_in_month(y, m - 1)
ymd2ord(d) == days_before_year(d[1]) + days_before_month(d[1], d[2]) + d[3]
ord2ymd(n) ==
    LET y == CHOOSE yy \in (n \div 366)..(n \div 365 + 1) :
                 days_before_year(yy) < n /\ n <= days_before_year(yy + 1)
        rest == n - days_before_year(y)
        m == CHOOSE mm \in 1..12 :
                 /\ days_before_month(y, mm) < rest
                 /\ rest <= days_before_month(y, mm) + days_in_month(y, mm)
    IN  <<y, m, rest - days_before_month(y, m)>>

\* d - timedelta(days=n)
days_before(d, n) == ord2ymd(ymd2ord(d) - n)

\* request.args.get("months", default=2, type=int): a text int() rejects
\* gives the default
request_months(months_arg) ==
    IF months_arg = None \/ ~int_of_text(months_arg[1]).ok THEN 2
    ELSE int_of_text(months_arg[1]).value

\* current - timedelta(days=1)
prev_day(d) ==
    IF d[3] > 1 THEN <<d[1], d[2], d[3] - 1>>
    ELSE IF d[2] > 1 THEN <<d[1], d[2] - 1, days_in_month(d[1], d[2] - 1)>>
    ELSE <<d[1] - 1, 12, 31>>

\* while current >= start_date: the dates from current down to start_date
RECURSIVE all_dates_loop(_, _)
all_dates_loop(current, start_date) ==
    IF date_le(start_date, current)
    THEN <<current>> \o all_dates_loop(prev_day(current), start_date)
    ELSE <<>>

(***************************************************************************)
(* The cache directory.  A file name is kept as the parts the f-string     *)
(* joins.                                                                  *)
(***************************************************************************)
get_cache_filename(data_type, months) == <<data_type, "-last-", months, "-months.json">>

\* None when the file does not exist, else <<content>>
load_cache(files, data_type, months) == files[get_cache_filename(data_type, months)]

save_cache(files, data_type, months, data) ==
    [files EXCEPT ![get_cache_filename(data_type, months)] = <<data>>]

(***************************************************************************)
(* fetch_activities.  A provider activity is [startTimeLocal, hrTimeInZone]*)
(* with startTimeLocal None (absent or empty) or <<[date, time]>> - the    *)
(* first ten characters and the rest - and hrTimeInZone[i] None or <<t>>,  *)
(* t in milliseconds.  The fields copied through unread (activity type,    *)
(* duration, distance, body battery impact) are left out.                  *)
(***************************************************************************)
\* float(f"{time_in_zone:.2f}"): milliseconds in, hundredths of a second out
two_decimals(time_in_zone) == (time_in_zone + 5) \div 10

\* for i in range(5, 0, -1)
RECURSIVE zones_loop(_, _, _)
zones_loop(activity, i, zones) ==
    IF i < 1 THEN zones
    ELSE zones_loop(activity, i - 1,
             IF activity.hrTimeInZone[i] # None
             THEN Append(zones, [zone |-> i,
                                 time_seconds |-> two_decimals(activity.hrTimeInZone[i][1])])
             ELSE zones)

\* an exception inside the loop ends it with the activities collected so far
RECURSIVE fetch_activities_loop(_, _, _, _)
fetch_activities_loop(activity_list, i, overrides, activities) ==
    IF i > Len(activity_list) THEN activities
    ELSE LET activity == activity_list[i]
             zones == zones_loop(activity, 5, <<>>)
             hr_zones == IF zones # <<>> THEN <<zones>> ELSE None
             start_time_local == activity.startTimeLocal
             activity_date ==
                 IF start_time_local # None /\ strptime_ok(start_time_local[1].date)
                 THEN start_time_local[1].date ELSE None
             hr_zone_context == get_hr_zone_context(activity_date, overrides)
             formatted_hr_zones ==
                 format_hr_zones_with_labels(hr_zones, hr_zone_context.zone_scheme)
         IN  IF formatted_hr_zones.raised # "none" THEN activities
             ELSE fetch_activities_loop(activity_list, i + 1, overrides,
                      Append(activities,
                             [datetime |-> start_time_local,
                              hr_zones |-> formatted_hr_zones.value,
                              device |-> hr_zone_context.device,
                              device_max_hr |-> hr_zone_context.max_hr]))

\* activity_list is None when get_activities_by_date raises
fetch_activities(activity_list, overrides) ==
    IF activity_list = None THEN <<>>
    ELSE fetch_activities_loop(activity_list[1], 1, overrides, <<>>)

\* count_activities_by_date(activities).get(date, 0)
count_activities_by_date(activities, date) ==
    Cardinality({ k \in DOMAIN activities :
                    /\ activities[k].datetime # None
                    /\ activities[k].datetime[1].date = date })

(***************************************************************************)
(* /api/summary and /api/activities.  The result is the response, the      *)
(* cache directory afterwards, whether the provider was contacted, and the *)
(* period <<start_date_str, end_date_str>> the handler computed.           *)
(***************************************************************************)
api_summary(months_arg, now, overrides, files, provider) ==
    LET months == request_months(months_arg)
        end_date == now
        start_date == days_before(end_date, months * 30)
        cached_data == load_cache(files, "summary", months)
    IN  IF cached_data # None
        THEN [response |-> [code |-> 200, data |-> cached_data[1]],
              files |-> files, provider_called |-> FALSE,
              period |-> <<start_date, end_date>>]
        ELSE IF ~provider.client_ok
        THEN [response |-> [code |-> 500], files |-> files, provider_called |-> TRUE,
              period |-> <<start_date, end_date>>]
        ELSE LET all_dates == all_dates_loop(end_date, start_date)
                 summary == fetch_daily_summary(provider.day)
                 activities == fetch_activities(provider.activity_list, overrides)
                 daily_summaries ==
                     [k \in DOMAIN all_dates |->
                        ("date" :> all_dates[k])
                        @@ ("num_activities" :>
                               count_activities_by_date(activities, all_dates[k]))
                        @@ summary]
                 response_data == [summaries |-> daily_summaries]
             IN  [response |-> [code |-> 200, data |-> response_data],
                  files |-> save_cache(files, "summary", months, response_data),
                  provider_called |-> TRUE,
                  period |-> <<start_date, end_date>>]

api_activities(months_arg, now, overrides, files, provider) ==
    LET months == request_months(months_arg)
        end_date == now
        start_date == days_before(end_date, months * 30)
        cached_data == load_cache(files, "activities", months)
    IN  IF cached_data # None
        THEN [response |-> [code |-> 200, data |-> cached_data[1]],
              files |-> files, provider_called |-> FALSE,
              period |-> <<start_date, end_date>>]
        ELSE IF ~provider.client_ok
        THEN [response |-> [code |-> 500], files |-> files, provider_called |-> TRUE,
              period |-> <<start_date, end_date>>]
        ELSE LET activities == fetch_activities(provider.activity_list, overrides)
                 response_data ==
                     [activities |-> activities,
                      hr_zone_percentages |->
                          [garmin |-> GARMIN_ZONE_RANGES,
                           olympiatoppen |-> OLYMPIATOPPEN_ZONE_RANGES]]
             IN  [response |-> [code |-> 200, data |-> response_data],
                  files |-> save_cache(files, "activities", months, response_data),
                  provider_called |-> TRUE,
                  period |-> <<start_date, end_date>>]

(***************************************************************************)
(* The override files the model reads.                                     *)
(***************************************************************************)
D1 == <<2024, 1, 31>>
D2 == <<2024, 2, 1>>
D3 == <<2024, 2, 29>>
Days == {D1, D2, D3}
OptDays == {None} \cup Days

RawEntry(scheme, start, end, device, max_hr) ==
    [zone_scheme |-> scheme, start_date |-> start, end_date |-> end,
     device |-> device, max_hr |-> max_hr]

\* every range over the sample days, under one accepted scheme
RawRangeEntries ==
    { RawEntry(<<S_olympiatoppen>>, s, e, <<"fenix">>, <<190>>) :
        s \in OptDays, e \in OptDays }

\* every sample spelling of the scheme, on one single-day range
RawSchemeEntries ==
    { RawEntry(z, D2, D2, None, None) :
        z \in {None, <<S_empty>>, <<S_garmin>>, <<S_Garmin>>, <<S_OLYMPIATOPPEN>>,
               <<S_polar>>, <<S_garmin_sp>>} }

\* date texts strptime rejects, and the empty text it never sees
RawDateEntries ==
    { RawEntry(<<S_garmin>>, <<2024, 2, 30>>, None, None, <<185>>),
      RawEntry(<<S_garmin>>, None, <<"31.01.2024">>, None, <<185>>),
      RawEntry(<<S_garmin>>, <<"">>, D1, None, <<185>>) }

RawEntries == RawRangeEntries \cup RawSchemeEntries \cup RawDateEntries

RawLists == UNION { [1..n -> RawEntries] : n \in 0..MaxOverrides }

Configs ==
    { [kind |-> k, entries |-> <<>>] : k \in {"unset", "missing", "unreadable"} }
    \cup { [kind |-> "file", entries |-> raw] : raw \in RawLists }

(***************************************************************************)
(* State machine.                                                          *)
(***************************************************************************)
NoCall == [fn |-> "none"]

\* the day the process starts on, and the cache files a request can name
FirstDay == <<2024, 2, 28>>
CacheMonths == {0, 1, 2}
CacheFiles ==
    { get_cache_filename(data_type, months) :
        data_type \in {"summary", "activities"}, months \in CacheMonths }

Init ==
    /\ phase = "boot"
    /\ config = [kind |-> "unset", entries |-> <<>>]
    /\ HR_PROFILE_OVERRIDES = <<>>
    /\ load_error = "none"
    /\ call = NoCall
    /\ today = FirstDay
    /\ cache = [f \in CacheFiles |-> None]
    /\ stored_for = [f \in CacheFiles |-> None]

\* import of app.py: HR_PROFILE_OVERRIDES = load_hr_profile_overrides().
\* An exception leaves the name unbound and ends the process.
BootFrom(configs) ==
    /\ phase = "boot"
    /\ \E cfg \in configs :
        LET r == load_hr_profile_overrides(cfg)
        IN  /\ config' = cfg
            /\ load_error' = r.error
            /\ phase' = IF r.error = "none" THEN "serving" ELSE "aborted"
            /\ HR_PROFILE_OVERRIDES' = r.overrides
    /\ UNCHANGED <<call, today, cache, stored_for>>

Boot == BootFrom(Configs)

NextLoad == Boot

SpecLoad == Init /\ [][NextLoad]_vars

(***************************************************************************)
(* The pure functions, applied to arguments of the caller's choice.        *)
(***************************************************************************)
OverrideSamples ==
    { [start_date |-> s, end_date |-> e, device |-> c.device,
       max_hr |-> c.max_hr, zone_scheme |-> c.zone_scheme] :
        s \in OptDays, e \in OptDays,
        c \in {default_context,
               [zone_scheme |-> S_olympiatoppen, max_hr |-> <<190>>,
                device |-> <<"fenix">>]} }

OverrideLists == UNION { [1..n -> OverrideSamples] : n \in 0..MaxCallOverrides }

ActivityDates == {None, <<2024, 1, 30>>, D1, D2, D3, <<2024, 3, 1>>}

\* the result has been handed back: the caller, or the server loop, goes on
Return ==
    /\ call # NoCall
    /\ call' = NoCall
    /\ UNCHANGED <<phase, config, HR_PROFILE_OVERRIDES, load_error, today, cache, stored_for>>

CallGetHrZoneContext ==
    /\ call = NoCall
    /\ \E activity_date \in ActivityDates, overrides \in OverrideLists :
        call' = [fn |-> "get_hr_zone_context",
                 activity_date |-> activity_date,
                 overrides |-> overrides,
                 result |-> get_hr_zone_context(activity_date, overrides)]
    /\ UNCHANGED <<phase, config, HR_PROFILE_OVERRIDES, load_error, today, cache, stored_for>>

NextResolve == CallGetHrZoneContext \/ Return

SpecResolve == Init /\ [][NextResolve]_vars

(***************************************************************************)
(* Requests to /api/status.                                                *)
(***************************************************************************)
\* the state of a process imported without an override path
InitServing ==
    /\ phase = "serving"
    /\ config = [kind |-> "unset", entries |-> <<>>]
    /\ HR_PROFILE_OVERRIDES = <<>>
    /\ load_error = "none"
    /\ call = NoCall
    /\ today = FirstDay
    /\ cache = [f \in CacheFiles |-> None]
    /\ stored_for = [f \in CacheFiles |-> None]

\* a bodyBatteryValuesArray of [timestamp, level] pairs with these levels
BodyBatteryArray(levels) == [k \in DOMAIN levels |-> <<k, levels[k]>>]
BodyBatteryEntries ==
    { [bodyBatteryValuesArray |-> BodyBatteryArray(levels)] :
        levels \in {<<>>, <<64>>, <<65>>, <<75>>, <<76>>, <<76, 64>>} }
BodyBatteryLists == UNION { [1..n -> BodyBatteryEntries] : n \in 0..MaxBBEntries }

ProviderDays ==
    { [client_ok |-> TRUE, restingHeartRate |-> rhr, lastNightAvg |-> hrv,
       bb_data |-> bb, sleep_score |-> sleep] :
        rhr \in {None, <<47>>, <<48>>, <<50>>, <<51>>},
        hrv \in {None, <<57>>, <<58>>, <<62>>, <<63>>},
        bb \in {None} \cup { <<l>> : l \in BodyBatteryLists },
        sleep \in {None, <<69>>, <<70>>, <<75>>, <<76>>} }
    \cup { [client_ok |-> FALSE, restingHeartRate |-> None, lastNightAvg |-> None,
            bb_data |-> None, sleep_score |-> None] }

EnergyArguments ==
    {None, << <<"0">> >>, << <<"1">> >>, << <<"4">> >>, << <<"5">> >>,
     << <<"6">> >>, << <<"7">> >>,
     << <<"1", "0">> >>, << <<"1", "1">> >>, << <<"-", "3">> >>,
     << <<"7", ".", "5">> >>, << <<"a", "b", "c">> >>}

\* the provider is asked only once the energy parameter has passed its check
StatusRequestFrom(energies, providers) ==
    /\ phase = "serving"
    /\ call = NoCall
    /\ \E energy \in energies, provider \in providers :
        LET response == status(energy, provider)
        IN  call' = [fn |-> "status",
                     energy |-> energy,
                     provider |-> IF response.code = 400 THEN None ELSE <<provider>>,
                     response |-> response]
    /\ UNCHANGED <<phase, config, HR_PROFILE_OVERRIDES, load_error, today, cache, stored_for>>

StatusRequest == StatusRequestFrom(EnergyArguments, ProviderDays)

NextStatus == StatusRequest \/ Return

SpecStatus == InitServing /\ [][NextStatus]_vars

ZoneNumbers == {-1, 0, 1, 2, 3, 4, 5, 6, 7, 10, 11}
ZoneObservations ==
    { [zone |-> z, time_seconds |-> t] : z \in ZoneNumbers, t \in {0, 120} }
ZoneLists == UNION { [1..n -> ZoneObservations] : n \in 0..MaxZones }
ZoneArguments == {None} \cup { <<zs>> : zs \in ZoneLists }
SchemeArguments == {S_garmin, S_olympiatoppen, S_Olympiatoppen, S_polar}

CallFormatHrZones ==
    /\ call = NoCall
    /\ \E zones \in ZoneArguments, zone_scheme \in SchemeArguments :
        call' = [fn |-> "format_hr_zones_with_labels",
                 zones |-> zones,
                 zone_scheme |-> zone_scheme,
                 result |-> format_hr_zones_with_labels(zones, zone_scheme)]
    /\ UNCHANGED <<phase, config, HR_PROFILE_OVERRIDES, load_error, today, cache, stored_for>>

NextLabel == CallFormatHrZones \/ Return

SpecLabel == Init /\ [][NextLabel]_vars

(***************************************************************************)
(* The whole server: one start, then requests and midnights in any order.  *)
(***************************************************************************)
ServerOverrideFiles ==
    { << RawEntry(<<S_OLYMPIATOPPEN>>, D1, D3, <<"fenix">>, <<190>>) >>,
      << RawEntry(<<S_Olympiatoppen>>, D2, D2, None, None),
         RawEntry(<<S_garmin>>, D3, None, <<"forerunner">>, <<185>>) >>,
      << RawEntry(<<S_polar>>, D2, D2, None, None) >> }
ServerConfigs ==
    { [kind |-> "unset", entries |-> <<>>] }
    \cup { [kind |-> "file", entries |-> raw] : raw \in ServerOverrideFiles }

\* a provider activity starting at 07:30 on the day the text names, with the
\* given times in zones 1..5
ProviderActivity(date_text, times) ==
    [startTimeLocal |-> IF date_text = None THEN None
                        ELSE << [date |-> date_text, time |-> " 07:30:00"] >>,
     hrTimeInZone |-> times]
NoZoneTimes == [i \in 1..5 |-> None]
ActivityLists ==
    { <<>>,
      << ProviderActivity(D2, [NoZoneTimes EXCEPT ![5] = <<0>>, ![3] = <<120004>>]),
         ProviderActivity(D2, NoZoneTimes),
         ProviderActivity(FirstDay, [i \in 1..5 |-> <<60006>>]),
         ProviderActivity(<<2024, 3, 2>>, [NoZoneTimes EXCEPT ![1] = <<30000>>]) >>,
      << ProviderActivity(D3, [NoZoneTimes EXCEPT ![3] = <<900000>>]),
         ProviderActivity(None, [NoZoneTimes EXCEPT ![2] = <<1999>>]),
         ProviderActivity(<<2024, 2, 30>>, [NoZoneTimes EXCEPT ![4] = <<1>>]) >> }

\* what the provider answers for every day of a summary request
ApiDay ==
    [client_ok |-> TRUE, restingHeartRate |-> <<48>>, lastNightAvg |-> None,
     bb_data |-> << << [bodyBatteryValuesArray |-> BodyBatteryArray(<<76, 64>>)] >> >>,
     sleep_score |-> <<70>>]
\* activity_list None: get_activities_by_date raises
ApiProviders ==
    { [client_ok |-> TRUE, day |-> ApiDay, activity_list |-> l] :
        l \in {None} \cup { <<a>> : a \in ActivityLists } }
    \cup { [client_ok |-> FALSE, day |-> ApiDay, activity_list |-> None] }
\* the provider of a summary request has one list of activities to count
SummaryProviders ==
    { p \in ApiProviders : ~p.client_ok \/ (p.activity_list # None /\ Len(p.activity_list[1]) = 4) }
\* the months parameter: 0 and 1 month of summaries; 1 month, the default
\* and a text that falls back to the default for the activities
SummaryMonthsArguments == {<< <<"0">> >>, << <<"1">> >>}
ActivitiesMonthsArguments == {None, << <<"1">> >>, << <<"x">> >>}

BootServer == BootFrom(ServerConfigs)

\* midnight passes between two requests
LastDay == days_before(FirstDay, 0 - MaxDayChanges)
DayChange ==
    /\ phase = "serving"
    /\ call = NoCall
    /\ date_lt(today, LastDay)
    /\ today' = days_before(today, 0 - 1)
    /\ UNCHANGED <<phase, config, HR_PROFILE_OVERRIDES, load_error, call, cache, stored_for>>

\* the history stored_for follows every file the handler wrote
ApiSummaryRequest ==
    /\ phase = "serving"
    /\ call = NoCall
    /\ \E months_arg \in SummaryMonthsArguments, provider \in SummaryProviders :
        LET r == api_summary(months_arg, today, HR_PROFILE_OVERRIDES, cache, provider)
        IN  /\ call' = [fn |-> "api_summary",
                        months_arg |-> months_arg,
                        period |-> r.period,
                        provider |-> IF r.provider_called THEN <<provider>> ELSE None,
                        response |-> r.response]
            /\ cache' = r.files
            /\ stored_for' = [f \in CacheFiles |->
                                 IF r.files[f] # cache[f] THEN <<r.period>>
                                 ELSE stored_for[f]]
    /\ UNCHANGED <<phase, config, HR_PROFILE_OVERRIDES, load_error, today>>

\* mutant: serving the activities uses up the first override
ApiActivitiesRequest_consuming ==
    /\ phase = "serving"
    /\ call = NoCall
    /\ \E months_arg \in ActivitiesMonthsArguments, provider \in ApiProviders :
        LET r == api_activities(months_arg, today, HR_PROFILE_OVERRIDES, cache, provider)
        IN  /\ call' = [fn |-> "api_activities",
                        months_arg |-> months_arg,
                        period |-> r.period,
                        provider |-> IF r.provider_called THEN <<provider>> ELSE None,
                        response |-> r.response]
            /\ cache' = r.files
            /\ stored_for' = [f \in CacheFiles |->
                                 IF r.files[f] # cache[f] THEN <<r.period>>
                                 ELSE stored_for[f]]
    /\ HR_PROFILE_OVERRIDES' =
          IF HR_PROFILE_OVERRIDES = <<>> THEN <<>> ELSE Tail(HR_PROFILE_OVERRIDES)
    /\ UNCHANGED <<phase, config, load_error, today>>

ApiActivitiesRequest ==
    /\ phase = "serving"
    /\ call = NoCall
    /\ \E months_arg \in ActivitiesMonthsArguments, provider \in ApiProviders :
        LET r == api_activities(months_arg, today, HR_PROFILE_OVERRIDES, cache, provider)
        IN  /\ call' = [fn |-> "api_activities",
                        months_arg |-> months_arg,
                        period |-> r.period,
                        provider |-> IF r.provider_called THEN <<provider>> ELSE None,
                        response |-> r.response]
            /\ cache' = r.files
            /\ stored_for' = [f \in CacheFiles |->
                                 IF r.files[f] # cache[f] THEN <<r.period>>
                                 ELSE stored_for[f]]
    /\ UNCHANGED <<phase, config, HR_PROFILE_OVERRIDES, load_error, today>>

ServerStatusRequest ==
    StatusRequestFrom({None, << <<"7">> >>, << <<"0">> >>},
                      {ApiDay, [ApiDay EXCEPT !.client_ok = FALSE]})

NextServer ==
    \/ BootServer
    \/ DayChange
    \/ ApiSummaryRequest
    \/ ApiActivitiesRequest
    \/ ServerStatusRequest
    \/ Return

SpecServer == Init /\ [][NextServer]_vars


(***************************************************************************)
(* Vocabulary of the properties, stated without the operators above.       *)
(***************************************************************************)
\* a date as one number that orders like the calendar
DayNumber(d) == d[1] * 10000 + d[2] * 100 + d[3]

Missing(text) == text = None \/ text = <<"">>
IsDayText(text) == text \in Days

\* the range of a raw entry whose date texts are missing or well formed
HasRange(e) ==
    /\ Missing(e.start_date) \/ IsDayText(e.start_date)
    /\ Missing(e.end_date) \/ IsDayText(e.end_date)
RangeStart(e) == IF Missing(e.start_date) THEN 10101 ELSE DayNumber(e.start_date)
RangeEnd(e) == IF Missing(e.end_date) THEN 99991231 ELSE DayNumber(e.end_date)
RangesOverlap(e1, e2) ==
    /\ HasRange(e1) /\ HasRange(e2)
    /\ RangeStart(e1) <= RangeEnd(e2)
    /\ RangeStart(e2) <= RangeEnd(e1)

CasePairs == { <<UpperChars[k], LowerChars[k]>> : k \in DOMAIN UpperChars }
SameLetter(c, d) == c = d \/ <<c, d>> \in CasePairs \/ <<d, c>> \in CasePairs
EqualsIgnoringCase(a, b) ==
    Len(a) = Len(b) /\ \A i \in DOMAIN a : SameLetter(a[i], b[i])
SchemeAccepted(z) ==
    /\ z # None
    /\ \/ EqualsIgnoringCase(z[1], S_garmin)
       \/ EqualsIgnoringCase(z[1], S_olympiatoppen)
LowerCaseForm(z) ==
    IF EqualsIgnoringCase(z[1], S_garmin) THEN S_garmin ELSE S_olympiatoppen

\* an entry that is valid on its own
EntryValid(e) ==
    /\ SchemeAccepted(e.zone_scheme)
    /\ HasRange(e)
    /\ RangeStart(e) <= RangeEnd(e)
\* the record a valid entry is to be loaded as
RecordOf(e) ==
    [start_date |-> IF Missing(e.start_date) THEN None ELSE e.start_date,
     end_date |-> IF Missing(e.end_date) THEN None ELSE e.end_date,
     device |-> e.device,
     max_hr |-> e.max_hr,
     zone_scheme |-> LowerCaseForm(e.zone_scheme)]

Loaded == phase # "boot" /\ config.kind = "file"
Entries == config.entries
LoadFailed == phase = "aborted" /\ load_error # "none" /\ HR_PROFILE_OVERRIDES = <<>>
SomeOverlap ==
    \E i, j \in DOMAIN Entries : i # j /\ RangesOverlap(Entries[i], Entries[j])

\* the override covers the date, both bounds inclusive, None unbounded
Covers(o, d) ==
    /\ o.start_date = None \/ DayNumber(o.start_date) <= DayNumber(d)
    /\ o.end_date = None \/ DayNumber(d) <= DayNumber(o.end_date)
ContextOf(o) == [zone_scheme |-> o.zone_scheme, max_hr |-> o.max_hr, device |-> o.device]

QueryDates ==
    Days \cup {<<1, 1, 1>>, <<2023, 12, 31>>, <<2024, 1, 30>>, <<2024, 2, 15>>,
               <<2024, 3, 1>>, <<9999, 12, 31>>}

IndexPermutations(n) ==
    { p \in [1..n -> 1..n] : \A i, j \in 1..n : p[i] = p[j] => i = j }
Permuted(seq, p) == [i \in 1..Len(seq) |-> seq[p[i]]]

(***************************************************************************)
(* C1: a load fails, installing nothing, whenever two entries at any two   *)
(* positions have overlapping ranges (missing start = minimum date,        *)
(* missing end = maximum date, overlap iff s1 <= e2 and s2 <= e1); when    *)
(* every entry is valid on its own the failure is OverlappingOverrides.    *)
(***************************************************************************)
C1_OverlapFailsLoad ==
    (Loaded /\ SomeOverlap) =>
        /\ LoadFailed
        /\ (\A i \in DOMAIN Entries : EntryValid(Entries[i]))
              => load_error = "OverlappingOverrides"

\* the first and the last of three entries share one boundary day only,
\* the entry between them overlaps neither
C1_Witness ==
    /\ Loaded /\ Len(Entries) = 3
    /\ \A i \in 1..3 : EntryValid(Entries[i])
    /\ RangesOverlap(Entries[1], Entries[3])
    /\ RangeEnd(Entries[1]) = RangeStart(Entries[3])
    /\ ~RangesOverlap(Entries[1], Entries[2])
    /\ ~RangesOverlap(Entries[2], Entries[3])
    /\ load_error = "OverlappingOverrides"

(***************************************************************************)
(* C2: in every override set a load returns, each date is covered by at    *)
(* most one override, so get_hr_zone_context gives the default or that one *)
(* override's context, and gives the same for the set loaded in any other  *)
(* order.                                                                  *)
(***************************************************************************)
C2_UniqueMatch ==
    phase = "serving" =>
        \A d \in QueryDates :
            LET covering == { i \in DOMAIN HR_PROFILE_OVERRIDES :
                                Covers(HR_PROFILE_OVERRIDES[i], d) }
                ctx == get_hr_zone_context(d, HR_PROFILE_OVERRIDES)
            IN  /\ Cardinality(covering) <= 1
                /\ covering = {} => ctx = default_context
                /\ \A i \in covering : ctx = ContextOf(HR_PROFILE_OVERRIDES[i])
                /\ \A p \in IndexPermutations(Len(Entries)) :
                    LET r == load_hr_profile_overrides(
                                 [kind |-> "file", entries |-> Permuted(Entries, p)])
                    IN  /\ r.error = "none"
                        /\ r.overrides = Permuted(HR_PROFILE_OVERRIDES, p)
                        /\ get_hr_zone_context(d, r.overrides) = ctx

\* three overrides loaded, two of them on neighbouring days
C2_Witness ==
    /\ phase = "serving" /\ Len(HR_PROFILE_OVERRIDES) = 3
    /\ HR_PROFILE_OVERRIDES[1].start_date = D2
    /\ HR_PROFILE_OVERRIDES[2].end_date = D1
    /\ HR_PROFILE_OVERRIDES[3].start_date = D3
    /\ get_hr_zone_context(D1, HR_PROFILE_OVERRIDES).device = <<"fenix">>
    /\ get_hr_zone_context(D2, HR_PROFILE_OVERRIDES).device = None

(***************************************************************************)
(* C4: loading is atomic. With any invalid entry (scheme not recognised,   *)
(* malformed date text, start after end, or an overlap) the load fails and *)
(* nothing is installed, whatever precedes the bad entry; otherwise the    *)
(* installed set holds one record per raw entry, in the same order.        *)
(***************************************************************************)
C4_AtomicLoad ==
    Loaded =>
        IF (\E i \in DOMAIN Entries : ~EntryValid(Entries[i])) \/ SomeOverlap
        THEN LoadFailed
        ELSE /\ phase = "serving" /\ load_error = "none"
             /\ Len(HR_PROFILE_OVERRIDES) = Len(Entries)
             /\ \A i \in DOMAIN Entries : HR_PROFILE_OVERRIDES[i] = RecordOf(Entries[i])

\* two valid, disjoint entries precede an entry with a malformed date
C4_Witness ==
    /\ Loaded /\ Len(Entries) = 3
    /\ EntryValid(Entries[1]) /\ EntryValid(Entries[2])
    /\ ~RangesOverlap(Entries[1], Entries[2])
    /\ SchemeAccepted(Entries[3].zone_scheme) /\ ~HasRange(Entries[3])
    /\ LoadFailed /\ load_error = "InvalidDateFormat"

(***************************************************************************)
(* C5: an entry's zone_scheme is accepted iff it equals "garmin" or        *)
(* "olympiatoppen" ignoring case; any other value, and a missing or null   *)
(* one, fails the load with the invalid-zone-scheme error (raised at the   *)
(* first entry that fails a check); accepted records hold the lower-case   *)
(* form.                                                                   *)
(***************************************************************************)
C5_SchemeCheck ==
    Loaded =>
        /\ (\E i \in DOMAIN Entries : ~SchemeAccepted(Entries[i].zone_scheme))
              => LoadFailed
        /\ \A i \in DOMAIN Entries :
              (/\ \A k \in 1..(i - 1) : EntryValid(Entries[k])
               /\ ~SchemeAccepted(Entries[i].zone_scheme))
                  => load_error = "InvalidZoneScheme"
        /\ (\A i \in DOMAIN Entries : SchemeAccepted(Entries[i].zone_scheme))
              => load_error # "InvalidZoneScheme"
        /\ phase = "serving" =>
              \A i \in DOMAIN HR_PROFILE_OVERRIDES :
                  /\ SchemeAccepted(Entries[i].zone_scheme)
                  /\ HR_PROFILE_OVERRIDES[i].zone_scheme
                        = LowerCaseForm(Entries[i].zone_scheme)

\* "OLYMPIATOPPEN" is loaded as "olympiatoppen"
C5_Witness ==
    /\ phase = "serving" /\ Len(Entries) >= 1
    /\ Entries[1].zone_scheme = <<S_OLYMPIATOPPEN>>
    /\ HR_PROFILE_OVERRIDES[1].zone_scheme = S_olympiatoppen


(***************************************************************************)
(* C3: get_hr_zone_context returns the context of the first override in    *)
(* list order whose inclusive bounds (None = unbounded) contain the date;  *)
(* it returns the default context exactly when the date is None, the list  *)
(* is empty or no override contains the date.                              *)
(***************************************************************************)
ResolveCalled == call.fn = "get_hr_zone_context"
CoveringOverrides ==
    IF call.activity_date = None THEN {}
    ELSE { i \in DOMAIN call.overrides : Covers(call.overrides[i], call.activity_date) }
FirstCovering == CHOOSE i \in CoveringOverrides : \A k \in CoveringOverrides : i <= k
DefaultCase ==
    call.activity_date = None \/ call.overrides = <<>> \/ CoveringOverrides = {}

C3_FirstMatchDefaultExactly ==
    ResolveCalled =>
        /\ CoveringOverrides # {}
              => call.result = ContextOf(call.overrides[FirstCovering])
        /\ call.result = default_context <=> DefaultCase

\* C3 as it holds: the default context is returned in each of the three
\* cases, and otherwise only when the first override containing the date
\* itself carries the values {garmin, None, None}.
C3_FirstMatch ==
    ResolveCalled =>
        /\ CoveringOverrides # {}
              => call.result = ContextOf(call.overrides[FirstCovering])
        /\ DefaultCase => call.result = default_context
        /\ call.result = default_context =>
              \/ DefaultCase
              \/ ContextOf(call.overrides[FirstCovering]) = default_context

\* a date strictly between the ranges of two overrides that both carry a
\* device resolves to the default context
C3_Witness ==
    /\ ResolveCalled /\ Len(call.overrides) = 2
    /\ call.activity_date = D2
    /\ call.overrides[1].start_date = D3 /\ call.overrides[1].device # None
    /\ call.overrides[2].end_date = D1 /\ call.overrides[2].device # None
    /\ call.result = default_context

(***************************************************************************)
(* C6: for a non-empty list of observations with zone numbers in 1..5,     *)
(* format_hr_zones_with_labels returns a list of the same length and       *)
(* order; element i pairs "<label> (<SchemeName>)" with the zone number    *)
(* and keeps time_seconds, the label being "I-z" under the Olympiatoppen   *)
(* name iff the scheme is exactly "olympiatoppen", "Zone z" under the      *)
(* Garmin name for every other scheme.                                     *)
(***************************************************************************)
LabelCalled == call.fn = "format_hr_zones_with_labels"
Observations == call.zones[1]
GarminLabels == <<"Zone 1", "Zone 2", "Zone 3", "Zone 4", "Zone 5">>
OlympiatoppenLabels == <<"I-1", "I-2", "I-3", "I-4", "I-5">>
ExpectedKey(z, scheme) ==
    IF scheme = S_olympiatoppen
    THEN <<OlympiatoppenLabels[z], "Olympiatoppen">>
    ELSE <<GarminLabels[z], "Garmin">>

C6_LabelsByZone ==
    (/\ LabelCalled /\ call.zones # None /\ Observations # <<>>
     /\ \A i \in DOMAIN Observations : Observations[i].zone \in 1..5)
    => /\ call.result.raised = "none"
       /\ call.result.value # None
       /\ Len(call.result.value[1]) = Len(Observations)
       /\ \A i \in DOMAIN Observations :
            call.result.value[1][i] =
                [key |-> ExpectedKey(Observations[i].zone, call.zone_scheme),
                 value |-> Observations[i].zone,
                 time_seconds |-> Observations[i].time_seconds]

\* zones 5 and 2, in that order, under "olympiatoppen"
C6_Witness ==
    /\ LabelCalled /\ call.zone_scheme = S_olympiatoppen
    /\ call.zones = << << [zone |-> 5, time_seconds |-> 120],
                          [zone |-> 2, time_seconds |-> 0] >> >>
    /\ call.result.value[1][1].key = <<"I-5", "Olympiatoppen">>
    /\ call.result.value[1][2].key = <<"I-2", "Olympiatoppen">>

(***************************************************************************)
(* C7: format_hr_zones_with_labels raises an index-out-of-range error for  *)
(* every observation whose zone number is outside 1..5; it never returns a *)
(* labeled result for such a zone number.                                  *)
(***************************************************************************)
C7_OutOfRangeRaises ==
    (/\ LabelCalled /\ call.zones # None
     /\ \E i \in DOMAIN Observations : Observations[i].zone \notin 1..5)
    => call.result.raised = "IndexError"


(***************************************************************************)
(* Vocabulary of the readiness properties.                                 *)
(***************************************************************************)
StatusServed == call.fn = "status" /\ call.response.code = 200
Rows == call.response.metrics_table
Today == call.provider[1]

\* the status of a value v (None, or <<n>>) under "green above hi, yellow
\* lo..hi, red below lo", or the mirrored rule when lower is better
HigherIsBetter(v, lo, hi) ==
    IF v = None THEN "unknown"
    ELSE IF v[1] > hi THEN "green"
    ELSE IF v[1] >= lo THEN "yellow"
    ELSE "red"
LowerIsBetter(v, lo, hi) ==
    IF v = None THEN "unknown"
    ELSE IF v[1] < lo THEN "green"
    ELSE IF v[1] <= hi THEN "yellow"
    ELSE "red"

ScoredStatuses == <<Rows[1].status[1], Rows[2].status[1], Rows[4].status[1], Rows[5].status[1]>>
CountOf(s) == Cardinality({k \in 1..4 : ScoredStatuses[k] = s})
KnownCount == 4 - CountOf("unknown")
ScoreSum == 2 * CountOf("green") + CountOf("yellow")

(***************************************************************************)
(* C8: each scored metric gets exactly one status by the rule null ->      *)
(* unknown, else green, else yellow, else red, with HRV green > 62, yellow *)
(* 58..62, red < 58; Body Battery (start) green > 75, yellow 65..75, red   *)
(* < 65; Sleep Score green > 75, yellow 70..75, red < 70; Resting HR green *)
(* < 48, yellow 48..50, red > 50. A null value is never scored as 0.       *)
(***************************************************************************)
C8_MetricStatuses ==
    StatusServed =>
        /\ Rows[1].current_value = Today.lastNightAvg
        /\ Rows[4].current_value = Today.sleep_score
        /\ Rows[5].current_value = Today.restingHeartRate
        /\ Rows[1].status = <<HigherIsBetter(Rows[1].current_value, 58, 62)>>
        /\ Rows[2].status = <<HigherIsBetter(Rows[2].current_value, 65, 75)>>
        /\ Rows[4].status = <<HigherIsBetter(Rows[4].current_value, 70, 75)>>
        /\ Rows[5].status = <<LowerIsBetter(Rows[5].current_value, 48, 50)>>
        /\ \A k \in {1, 2, 4, 5} :
              Rows[k].status = <<"unknown">> <=> Rows[k].current_value = None

\* no HRV and no body battery, a sleep score of 75 and a resting HR of 51
C8_Witness ==
    /\ StatusServed
    /\ Today.lastNightAvg = None /\ Rows[1].status = <<"unknown">>
    /\ Today.bb_data = None /\ Rows[2].status = <<"unknown">>
    /\ Today.sleep_score = <<75>> /\ Rows[4].status = <<"yellow">>
    /\ Today.restingHeartRate = <<51>> /\ Rows[5].status = <<"red">>

(***************************************************************************)
(* C9: the overall status comes from the four scored statuses with         *)
(* green=2, yellow=1, red=0 and unknown left out of the mean: all unknown  *)
(* -> unknown, "Insufficient data to determine readiness"; else two or     *)
(* more red, or a mean below 1.0 -> red, "Rest day recommended"; else a    *)
(* mean of at least 1.5 -> green, "Training OK"; else yellow, "Light       *)
(* activity only".                                                         *)
(***************************************************************************)
C9_OverallStatus ==
    StatusServed =>
        <<call.response.overall_status, call.response.recommendation>> =
            IF KnownCount = 0
            THEN <<"unknown", "Insufficient data to determine readiness">>
            ELSE IF CountOf("red") >= 2 \/ ScoreSum < KnownCount
            THEN <<"red", "Rest day recommended">>
            ELSE IF 2 * ScoreSum >= 3 * KnownCount
            THEN <<"green", "Training OK">>
            ELSE <<"yellow", "Light activity only">>

\* two red and two green metrics: the mean is 1.0 and the verdict is red
C9_Witness ==
    /\ StatusServed
    /\ CountOf("red") = 2 /\ CountOf("green") = 2
    /\ call.response.overall_status = "red"
    /\ call.response.recommendation = "Rest day recommended"

(***************************************************************************)
(* C10: the value scored as "Body Battery (start of day)" is the maximum   *)
(* of all body-battery values of the day, over every entry the provider    *)
(* returns; it is null only when no value at all was observed.             *)
(***************************************************************************)
DayLevels ==
    IF Today.bb_data = None THEN {}
    ELSE UNION { { tup[2] : tup \in
                     { e.bodyBatteryValuesArray[k] : k \in DOMAIN e.bodyBatteryValuesArray } } :
                 e \in { Today.bb_data[1][i] : i \in DOMAIN Today.bb_data[1] } }

C10_StartIsDayMaximum ==
    StatusServed =>
        Rows[2].current_value =
            IF DayLevels = {} THEN None
            ELSE <<CHOOSE v \in DayLevels : \A w \in DayLevels : w <= v>>

(***************************************************************************)
(* C11: "Body Battery (current)" takes no part in the verdict: with the    *)
(* HRV, start-of-day Body Battery, Sleep Score and Resting HR values       *)
(* fixed, the overall status and the recommendation are the same for every *)
(* current value, and the status of that row is always the not-applicable  *)
(* value, never green, yellow or red.                                      *)
(***************************************************************************)
\* the same day with one body-battery reading, the start-of-day value: its
\* current value is the start-of-day value
StartOnlyDay ==
    [Today EXCEPT !.bb_data =
        IF Rows[2].current_value = None THEN None
        ELSE << << [bodyBatteryValuesArray |->
                        BodyBatteryArray(Rows[2].current_value)] >> >>]

C11_CurrentBatteryNotScored ==
    StatusServed =>
        /\ Rows[3].metric = "Body Battery (current)"
        /\ Rows[3].status = None
        /\ LET other == status(call.energy, StartOnlyDay)
           IN  /\ \A k \in {1, 2, 4, 5} :
                     other.metrics_table[k].current_value = Rows[k].current_value
               /\ other.metrics_table[3].current_value = Rows[2].current_value
               /\ other.overall_status = call.response.overall_status
               /\ other.recommendation = call.response.recommendation

\* the day starts at 76 and is now at 64, nothing else is known: the verdict
\* is green although 64 on its own would be red
C11_Witness ==
    /\ StatusServed
    /\ Rows[2].current_value = <<76>> /\ Rows[3].current_value = <<64>>
    /\ Rows[3].status = None
    /\ KnownCount = 1
    /\ call.response.overall_status = "green"

(***************************************************************************)
(* C12: the energy parameter is accepted exactly when it is the text of an *)
(* integer from 1 to 10; anything else (0, 11, a negative number, a        *)
(* fraction, other text) is answered with HTTP 400 and no readiness        *)
(* result, before the provider is asked, and the process goes on serving.  *)
(* A request without the parameter is always accepted.                     *)
(***************************************************************************)
EnergyTexts ==
    << <<"1">>, <<"2">>, <<"3">>, <<"4">>, <<"5">>, <<"6">>, <<"7">>, <<"8">>,
       <<"9">>, <<"1", "0">> >>
EnergyAccepted(energy) ==
    energy = None \/ \E e \in DOMAIN EnergyTexts : EnergyTexts[e] = energy[1]
ReadinessFields == {"metrics_table", "overall_status", "recommendation", "energy_zone"}

C12_EnergyValidation ==
    call.fn = "status" =>
        /\ call.response.code = 400 <=> ~EnergyAccepted(call.energy)
        /\ call.response.code = 400 =>
              /\ DOMAIN call.response \cap ReadinessFields = {}
              /\ call.provider = None
        /\ call.response.code = 200 => ReadinessFields \subseteq DOMAIN call.response
        /\ phase = "serving"
        /\ ENABLED Return

\* the score 0 was refused
C12_Witness ==
    /\ call.fn = "status"
    /\ call.energy = << <<"0">> >>
    /\ call.response.code = 400
    /\ call.response.error = "Energy score must be between 1-10"

(***************************************************************************)
(* C13: a valid energy score e only selects the guidance band - green for  *)
(* 7..10, yellow for 5..6, red for 1..4. With the metric values fixed, the *)
(* overall status, the recommendation and the four metric statuses are the *)
(* same for every e and for a request without the parameter.               *)
(***************************************************************************)
EnergyValue(energy) == CHOOSE e \in DOMAIN EnergyTexts : EnergyTexts[e] = energy[1]
EnergyBand(e) == IF e >= 7 THEN "green" ELSE IF e >= 5 THEN "yellow" ELSE "red"

C13_EnergyOnlyGuides ==
    StatusServed =>
        /\ call.response.energy_zone =
              IF call.energy = None THEN None
              ELSE <<EnergyBand(EnergyValue(call.energy))>>
        /\ LET plain == status(None, Today)
           IN  /\ plain.overall_status = call.response.overall_status
               /\ plain.recommendation = call.response.recommendation
               /\ plain.metrics_table = Rows

\* an energy score of 4 on a day whose only known metric is green
C13_Witness ==
    /\ StatusServed
    /\ call.energy = << <<"4">> >>
    /\ call.response.energy_zone = <<"red">>
    /\ KnownCount = 1
    /\ call.response.overall_status = "green"

(***************************************************************************)
(* C19: the verdict is monotone in every known metric: improving one       *)
(* status (red to yellow, yellow to green, red to green) with the others   *)
(* unchanged never makes the overall status worse; and when exactly one    *)
(* metric is known, the overall status is that metric's status.            *)
(***************************************************************************)
Rank(s) == CASE s = "red" -> 0 [] s = "yellow" -> 1 [] s = "green" -> 2
Improvements(s) == { t \in {"yellow", "green"} : s \in {"red", "yellow"} /\ Rank(t) > Rank(s) }

C19_MonotoneVerdict ==
    StatusServed =>
        /\ \A k \in 1..4 : \A t \in Improvements(ScoredStatuses[k]) :
              Rank(overall([ScoredStatuses EXCEPT ![k] = t]).overall_status)
                  >= Rank(call.response.overall_status)
        /\ KnownCount = 1 =>
              \E k \in 1..4 : /\ ScoredStatuses[k] # "unknown"
                               /\ call.response.overall_status = ScoredStatuses[k]

\* one red and one yellow metric give red; with the red one improved to
\* green the verdict is green
C19_Witness ==
    /\ StatusServed
    /\ CountOf("red") = 1 /\ CountOf("yellow") = 1 /\ KnownCount = 2
    /\ call.response.overall_status = "red"
    /\ \E k \in 1..4 :
          /\ ScoredStatuses[k] = "red"
          /\ overall([ScoredStatuses EXCEPT ![k] = "green"]).overall_status = "green"

(***************************************************************************)
(* C15: when no override path is configured, or the configured file does   *)
(* not exist, loading succeeds with an empty override set, and every       *)
(* activity date - and an activity without a date - resolves to the        *)
(* default context: scheme "garmin", no max_hr, no device.                 *)
(***************************************************************************)
C15_NoFileMeansDefaults ==
    (phase # "boot" /\ config.kind \in {"unset", "missing"}) =>
        /\ phase = "serving"
        /\ load_error = "none"
        /\ HR_PROFILE_OVERRIDES = <<>>
        /\ \A d \in QueryDates \cup {None} :
              get_hr_zone_context(d, HR_PROFILE_OVERRIDES) =
                  [zone_scheme |-> S_garmin, max_hr |-> None, device |-> None]

\* the process started with a path that names no file
C15_Witness ==
    /\ phase = "serving"
    /\ config.kind = "missing"
    /\ HR_PROFILE_OVERRIDES = <<>>

(***************************************************************************)
(* C16: for every scheme, format_hr_zones_with_labels returns null when    *)
(* the zones are null and when they are an empty list; when at least one   *)
(* observation of a zone 1..5 is present it returns a non-null list with   *)
(* one element per observation, even if every time_seconds is 0.           *)
(***************************************************************************)
C16_NullOnlyWithoutZones ==
    LabelCalled =>
        /\ (call.zones = None \/ call.zones[1] = <<>>) =>
              call.result = [raised |-> "none", value |-> None]
        /\ (call.zones # None /\ call.zones[1] # <<>> /\ call.result.raised = "none") =>
              /\ call.result.value # None
              /\ Len(call.result.value[1]) = Len(Observations)
        /\ ( /\ call.zones # None /\ call.zones[1] # <<>>
             /\ \A i \in DOMAIN Observations : Observations[i].zone \in 1..5 ) =>
              call.result.raised = "none"

\* two observations without any recorded time, under a scheme that is not
\* the Olympiatoppen one
C16_Witness ==
    /\ LabelCalled
    /\ call.zone_scheme = S_polar
    /\ call.zones = << << [zone |-> 5, time_seconds |-> 0],
                          [zone |-> 3, time_seconds |-> 0] >> >>
    /\ call.result.raised = "none"
    /\ call.result.value # None
    /\ Len(call.result.value[1]) = 2

(***************************************************************************)
(* Vocabulary of the properties of the API requests.                       *)
(***************************************************************************)
ApiServed == call.fn \in {"api_summary", "api_activities"} /\ call.response.code = 200
\* the handler answered without contacting the provider
AnsweredFromCache == ApiServed /\ call.provider = None
ActivitiesFetched ==
    call.fn = "api_activities" /\ call.response.code = 200 /\ call.provider # None
ProvidedActivities ==
    IF call.provider[1].activity_list = None THEN <<>>
    ELSE call.provider[1].activity_list[1]
ServedActivities == call.response.data.activities

\* the text names a day of the calendar (among the texts of the model)
KnownDays == Days \cup {FirstDay, <<2024, 3, 2>>}
\* the zones the provider reports a time for
ZonesOf(a) == { z \in 1..5 : a.hrTimeInZone[z] # None }
\* an entry of the override file spelling the Olympiatoppen scheme in any
\* casing, whose range holds the day
OlympiatoppenOn(day) ==
    \E i \in DOMAIN Entries :
        /\ Entries[i].zone_scheme # None
        /\ EqualsIgnoringCase(Entries[i].zone_scheme[1], S_olympiatoppen)
        /\ HasRange(Entries[i])
        /\ RangeStart(Entries[i]) <= DayNumber(day)
        /\ DayNumber(day) <= RangeEnd(Entries[i])

(***************************************************************************)
(* C14: the override set is written once, when the process starts; no      *)
(* request, in any number and order, changes it or its records.  Hence a   *)
(* fetch of the same activities always gives the result it gives under the *)
(* set loaded at the start.                                                *)
(***************************************************************************)
C14_OverridesWrittenOnce ==
    /\ [][HR_PROFILE_OVERRIDES' # HR_PROFILE_OVERRIDES => phase = "boot"]_vars
    /\ [](phase # "boot" =>
            HR_PROFILE_OVERRIDES = load_hr_profile_overrides(config).overrides)
    /\ [](ActivitiesFetched =>
            ServedActivities =
                fetch_activities(call.provider[1].activity_list,
                                 load_hr_profile_overrides(config).overrides))

\* activities are fetched on the second day, after an earlier request was
\* served, by a process that loaded two overrides
C14_Witness ==
    /\ ActivitiesFetched
    /\ today # FirstDay
    /\ \E f \in CacheFiles : stored_for[f] # None /\ stored_for[f][1][2] = FirstDay
    /\ Len(HR_PROFILE_OVERRIDES) = 2
    /\ Len(ServedActivities) = 4

(***************************************************************************)
(* C17: a request is answered from the cache only if the cached entry was  *)
(* stored for the same period - the same start and end date as the         *)
(* request's; then the provider is not contacted and the response is the   *)
(* one of the fetch that stored the entry.  This holds across any sequence *)
(* of requests and day changes.                                            *)
(***************************************************************************)
C17_CacheKeyedByPeriod ==
    AnsweredFromCache =>
        \E f \in CacheFiles :
            /\ cache[f] = <<call.response.data>>
            /\ stored_for[f] = <<call.period>>

(***************************************************************************)
(* C18: end to end, an override whose scheme is written in any casing of   *)
(* "olympiatoppen" is honoured: every activity dated inside its range that *)
(* has zone data is served with one "I-z (Olympiatoppen)" label per zone   *)
(* the provider reported.                                                  *)
(***************************************************************************)
C18_AnyCasingHonoured ==
    ActivitiesFetched =>
        /\ Len(ServedActivities) = Len(ProvidedActivities)
        /\ \A k \in DOMAIN ProvidedActivities :
              LET a == ProvidedActivities[k]
                  served == ServedActivities[k]
              IN  ( /\ a.startTimeLocal # None
                    /\ a.startTimeLocal[1].date \in KnownDays
                    /\ OlympiatoppenOn(a.startTimeLocal[1].date)
                    /\ ZonesOf(a) # {} ) =>
                      /\ served.hr_zones # None
                      /\ { served.hr_zones[1][j].value : j \in DOMAIN served.hr_zones[1] }
                             = ZonesOf(a)
                      /\ \A j \in DOMAIN served.hr_zones[1] :
                            served.hr_zones[1][j].key =
                                <<OlympiatoppenLabels[served.hr_zones[1][j].value],
                                  "Olympiatoppen">>

\* the file spells the scheme OLYMPIATOPPEN; the activity of 1 February with
\* times in zones 5 and 3 is served as I-5 and I-3
C18_Witness ==
    /\ ActivitiesFetched
    /\ Len(Entries) = 1
    /\ Entries[1].zone_scheme = <<S_OLYMPIATOPPEN>>
    /\ Len(ServedActivities) = 4
    /\ ServedActivities[1].datetime[1].date = D2
    /\ ServedActivities[1].hr_zones =
          << << [key |-> <<"I-5", "Olympiatoppen">>, value |-> 5, time_seconds |-> 0],
                [key |-> <<"I-3", "Olympiatoppen">>, value |-> 3,
                 time_seconds |-> 12000] >> >>

=============================================================================
